---- MODULE Spec2Model ----
(***************************************************************************)
(* A model of phylolabel.label_tree (src/phylolabel.py): projecting the    *)
(* groups of a taxonomy onto the nodes of a phylogeny.                     *)
(*                                                                         *)
(* Trees are kept as the script sees them through Bio.Phylo: every node    *)
(* has a name (the empty tuple when it has none), a branch_length, an      *)
(* ordered child list `clades` and a back-reference `_parent` (0 when the  *)
(* attribute is absent, as hasattr(top_node, '_parent') on line 37 allows).*)
(* Nodes are numbered; a node made by Clade(...) on line 80 takes the next *)
(* number.  Names are tuples of characters so that convert_labels has      *)
(* something to replace.                                                   *)
(***************************************************************************)
EXTENDS Integers, Sequences, FiniteSets, TLC

\* ------------------------------------------------------------------ bounds
MaxPhy == 3
MaxTax == 4

\* ------------------------------------------------------------- sequences
Range(s) == {s[k] : k \in DOMAIN s}

IndexOf(s, x) == CHOOSE k \in DOMAIN s : s[k] = x /\ \A m \in 1..(k-1) : s[m] # x

\* list.remove(x): drops the first occurrence of x
ListRemove(s, x) ==
  LET k == IndexOf(s, x)
  IN [m \in 1..(Len(s) - 1) |-> IF m < k THEN s[m] ELSE s[m + 1]]

NoName == <<>>

\* ------------------------------------------------------------ Bio.Phylo
\* str.replace('_', ' ') on one name
Replace(s) == [k \in DOMAIN s |-> IF s[k] = "_" THEN " " ELSE s[k]]

\* the per-node step of convert_labels: unnamed nodes are left alone
ConvertName(nm) == IF nm # NoName THEN Replace(nm) ELSE nm

\* find_elements(): the nodes under (and including) the heads of `stack`,
\* in depth-first pre-order
RECURSIVE Preorder(_, _)
Preorder(cl, stack) ==
  IF stack = <<>> THEN <<>>
  ELSE <<Head(stack)>> \o Preorder(cl, cl[Head(stack)] \o Tail(stack))

FindElements(cl, n) == Preorder(cl, <<n>>)

Elements(cl, n) == Range(FindElements(cl, n))

\* get_terminals(): the nodes of the tree that have no children, in pre-order
GetTerminals(cl, r) == SelectSeq(FindElements(cl, r), LAMBDA n : cl[n] = <<>>)

\* get_parents(False): the ancestors of n along _parent, nearest first
RECURSIVE GetParents(_, _)
GetParents(pr, n) ==
  IF pr[n] = 0 THEN <<>> ELSE <<pr[n]>> \o GetParents(pr, pr[n])

\* find_any(name) by traversal: the first node in pre-order carrying the
\* name, 0 (None) when there is none
FindAny(cl, nm, r, target) ==
  LET hits == SelectSeq(FindElements(cl, r), LAMBDA n : nm[n] = target)
  IN IF target = NoName \/ hits = <<>> THEN 0 ELSE Head(hits)

\* index_labels(): name -> first node carrying it
IndexLabels(cl, nm, r) ==
  LET named == {nm[n] : n \in Elements(cl, r)} \ {NoName}
  IN [t \in named |-> FindAny(cl, nm, r, t)]

\* find_any(name) once the tree is indexed
Lookup(index, target) == IF target \in DOMAIN index THEN index[target] ELSE 0

\* get_path(t): the nodes from below the start node down to t
RECURSIVE GetPath(_, _, _)
GetPath(cl, n, t) ==
  IF n = t THEN <<>>
  ELSE LET c == CHOOSE c \in Range(cl[n]) : t \in Elements(cl, c)
       IN <<c>> \o GetPath(cl, c, t)

\* common_ancestor(targets): the deepest node on every target's path from
\* the root; the root itself when there are no targets
RECURSIVE Mrca(_, _, _)
Mrca(paths, lvl, cur) ==
  IF paths = {} THEN cur
  ELSE IF \E p \in paths : Len(p) < lvl THEN cur
  ELSE LET ref == CHOOSE x \in {p[lvl] : p \in paths} : TRUE
       IN IF \A p \in paths : p[lvl] = ref THEN Mrca(paths, lvl + 1, ref)
          ELSE cur

CommonAncestor(cl, r, targets) ==
  Mrca({GetPath(cl, r, t) : t \in targets}, 1, r)

\* --------------------------------------------------------------- inputs
\* Tree shapes: parent vectors in pre-order numbering (node 1 is the root,
\* the parent of node k is k-1 or one of its ancestors), as a parser builds
\* them; child lists are in reading order.
Shapes(n) ==
  {p \in [1..n -> 0..(n - 1)] :
     /\ p[1] = 0
     /\ \A k \in 2..n : p[k] >= 1 /\ p[k] < k
     /\ \A k \in 2..n : p[k] \in {k - 1} \cup Range(GetParents(p, k - 1))}

ChildLists(p) ==
  [k \in DOMAIN p |-> SelectSeq([m \in DOMAIN p |-> m], LAMBDA m : p[m] = k)]

Chr == <<"a", "b", "c", "d", "e", "f", "g", "h">>

\* the written form of the k-th taxon's name; files use "_" for the space
Nm(k, sep) == <<Chr[k], sep, "sp">>

Unknown == <<"zz", "_", "sp">>

\* taxonomies: every node named, names distinct
TaxInputs ==
  {[par |-> p, name |-> [k \in DOMAIN p |-> Nm(k, "_")]] :
     p \in UNION {Shapes(n) : n \in 1..MaxTax}}

\* phylogenies over a taxonomy of nt nodes: leaves named after distinct
\* taxa or after something the taxonomy does not have, inner nodes unnamed,
\* inner branch lengths 0 or not 0
PhyOfShape(p, nt) ==
  LET inner == Range(p) \ {0}
      leaves == DOMAIN p \ inner
  IN {[par |-> p,
       name |-> [k \in DOMAIN p |->
                   IF k \in inner THEN NoName
                   ELSE IF lab[k] = 0 THEN Unknown ELSE Nm(lab[k], "_")],
       bl |-> [k \in DOMAIN p |-> IF k \in inner THEN b[k] ELSE 1]] :
        lab \in {l \in [leaves -> 0..nt] :
                   \A x, y \in leaves : x # y => l[x] # l[y]},
        b \in [inner -> {0, 1}]}

PhyShapes == UNION {Shapes(n) : n \in 1..MaxPhy}

\* the -r argument: absent, or a taxon's name typed with a space, or the
\* last taxon's name typed the way the file writes it
RootArgs(nt) ==
  {NoName} \cup {Nm(k, " ") : k \in 1..nt} \cup {Nm(nt, "_")}

\* Scenario A of the specification: ((Homo sapiens,Homo erectus),Pan
\* troglodytes) against Hominidae(Homo(Homo sapiens,Homo erectus),Pan
\* troglodytes)
HomoSapiens == <<"Homo", "_", "sapiens">>
HomoErectus == <<"Homo", "_", "erectus">>
PanTroglodytes == <<"Pan", "_", "troglodytes">>

ScenarioA ==
  {[phy |-> [par |-> <<0, 1, 2, 2, 1>>,
             name |-> <<NoName, NoName, HomoSapiens, HomoErectus,
                        PanTroglodytes>>,
             bl |-> <<1, b, 1, 1, 1>>],
    tax |-> [par |-> <<0, 1, 2, 2, 1>>,
             name |-> <<(<<"Hominidae">>), <<"Homo">>, HomoSapiens,
                        HomoErectus, PanTroglodytes>>],
    arg |-> NoName] : b \in {0, 1}}

\* Scenario C: the trichotomy (A,B,C), whose root has no branch length,
\* against Rank(Suborder1(A,B),Suborder2(A,C))
ScenarioC ==
  {[phy |-> [par |-> <<0, 1, 1, 1>>,
             name |-> <<NoName, <<"A">>, <<"B">>, <<"C">>>>,
             bl |-> <<1, 1, 1, 1>>],
    tax |-> [par |-> <<0, 1, 2, 2, 1, 5, 5>>,
             name |-> <<(<<"Rank">>), <<"Suborder1">>, <<"A">>, <<"B">>,
                        <<"Suborder2">>, <<"A">>, <<"C">>>>],
    arg |-> NoName]}

\* Section 4.5's nested case: the broader group R = {c, a, b} reaches the
\* root of (c,a,b) first, the narrower G = {a, b} finds it labelled
ScenarioNested ==
  {[phy |-> [par |-> <<0, 1, 1, 1>>,
             name |-> <<NoName, Nm(2, "_"), Nm(4, "_"), Nm(5, "_")>>,
             bl |-> <<b, 1, 1, 1>>],
    tax |-> [par |-> <<0, 1, 1, 3, 3>>,
             name |-> [k \in 1..5 |-> Nm(k, "_")]],
    arg |-> NoName] : b \in {0, 1}}

Scenarios == ScenarioA \cup ScenarioC \cup ScenarioNested

\* ---------------------------------------------------------------- state
VARIABLES
  phylogeny,              \* [name, branch_length, clades, parent, root, index]
  taxonomy,               \* the same fields for the taxonomy
  tax_root,               \* the tax_root argument, NoName for None
  phylogeny_species,      \* line 46
  phylogeny_to_taxonomy,  \* line 51
  taxonomy_to_phylogeny,  \* line 50
  done,                   \* line 60
  pc,                     \* where label_tree stands
  sp,                     \* position of the outer loop in phylogeny_species
  tax_parents,            \* what the inner loop has still to visit
  error,                  \* the exception that ended the run, "" for none
  leaves0,                \* history: the leaves as convert_labels left them
  log                     \* history: one entry per group resolved

vars == <<phylogeny, taxonomy, tax_root, phylogeny_species,
          phylogeny_to_taxonomy, taxonomy_to_phylogeny, done, pc, sp,
          tax_parents, error, leaves0, log>>

NoIndex == [t \in {} |-> 0]

\* a tree as read from a file: _parent set on every node but the root, no
\* label index yet
ReadTree(par, name, bl) ==
  [name |-> name, branch_length |-> bl, clades |-> ChildLists(par),
   parent |-> par, root |-> 1, index |-> NoIndex]

Nodes(t) == Elements(t.clades, t.root)

\* the leaves of a tree with what identifies them
LeafSet(t) ==
  {<<n, t.name[n], t.branch_length[n]>> :
     n \in Range(GetTerminals(t.clades, t.root))}

InitWith(phy, tax, arg) ==
  /\ phylogeny = ReadTree(phy.par, phy.name, phy.bl)
  /\ taxonomy = ReadTree(tax.par, tax.name, [k \in DOMAIN tax.par |-> 1])
  /\ tax_root = arg
  /\ phylogeny_species = <<>>
  /\ phylogeny_to_taxonomy = NoIndex
  /\ taxonomy_to_phylogeny = NoIndex
  /\ done = {}
  /\ pc = "convert_labels"
  /\ sp = 0
  /\ tax_parents = <<>>
  /\ error = ""
  /\ leaves0 = {}
  /\ log = <<>>

Init ==
  \/ \E tax \in TaxInputs : \E p \in PhyShapes :
       \E phy \in PhyOfShape(p, Len(tax.par)) :
         \E arg \in RootArgs(Len(tax.par)) : InitWith(phy, tax, arg)
  \/ \E inp \in Scenarios : InitWith(inp.phy, inp.tax, inp.arg)

\* ----------------------------------------------------- lines 29 to 56
\* convert_labels(t): every name of the tree rewritten
convert_labels(t) ==
  [t EXCEPT !.name = [n \in DOMAIN t.name |-> ConvertName(t.name[n])]]

\* lines 30-31
ConvertLabels ==
  /\ pc = "convert_labels"
  /\ phylogeny' = convert_labels(phylogeny)
  /\ taxonomy' = convert_labels(taxonomy)
  /\ leaves0' = LeafSet(phylogeny')
  /\ pc' = "subset"
  /\ UNCHANGED <<tax_root, phylogeny_species, phylogeny_to_taxonomy,
                 taxonomy_to_phylogeny, done, sp, tax_parents, error, log>>

\* lines 34-39: the node found is cut out of its parent's child list and
\* made the root of a new tree; its _parent is not touched
SubsetTree(t, arg) ==
  LET top_node == FindAny(t.clades, t.name, t.root, arg)
  IN IF arg # NoName /\ top_node # 0
     THEN [t EXCEPT
             !.clades = IF t.parent[top_node] # 0
                        THEN [@ EXCEPT ![t.parent[top_node]] =
                                         ListRemove(@, top_node)]
                        ELSE @,
             !.root = top_node]
     ELSE t

SubsetTaxonomy ==
  /\ pc = "subset"
  /\ taxonomy' = SubsetTree(taxonomy, tax_root)
  /\ pc' = "index_labels"
  /\ UNCHANGED <<phylogeny, tax_root, phylogeny_species,
                 phylogeny_to_taxonomy, taxonomy_to_phylogeny, done, sp,
                 tax_parents, error, leaves0, log>>

\* index_labels() of a tree
index_labels(t) == [t EXCEPT !.index = IndexLabels(t.clades, t.name, t.root)]

\* lines 42-43
IndexTrees ==
  /\ pc = "index_labels"
  /\ phylogeny' = index_labels(phylogeny)
  /\ taxonomy' = index_labels(taxonomy)
  /\ pc' = "correspondence"
  /\ UNCHANGED <<tax_root, phylogeny_species, phylogeny_to_taxonomy,
                 taxonomy_to_phylogeny, done, sp, tax_parents, error,
                 leaves0, log>>

\* line 46
NamedTerminals(t) ==
  SelectSeq(GetTerminals(t.clades, t.root), LAMBDA n : t.name[n] # NoName)

\* lines 52-55: leaf -> the taxonomy node its name finds
PhylogenyToTaxonomy(species, phy, tax) ==
  LET found == {s \in Range(species) : Lookup(tax.index, phy.name[s]) # 0}
  IN [s \in found |-> Lookup(tax.index, phy.name[s])]

\* lines 52-56: taxonomy node -> the last leaf of the list that found it
TaxonomyToPhylogeny(species, p2t) ==
  LET last(x) == CHOOSE k \in DOMAIN species :
                   /\ species[k] \in DOMAIN p2t /\ p2t[species[k]] = x
                   /\ \A m \in DOMAIN species :
                        (species[m] \in DOMAIN p2t /\ p2t[species[m]] = x)
                          => m <= k
  IN [x \in Range(p2t) |-> species[last(x)]]

\* lines 46-60
BuildCorrespondence ==
  /\ pc = "correspondence"
  /\ phylogeny_species' = NamedTerminals(phylogeny)
  /\ phylogeny_to_taxonomy' =
       PhylogenyToTaxonomy(phylogeny_species', phylogeny, taxonomy)
  /\ taxonomy_to_phylogeny' =
       TaxonomyToPhylogeny(phylogeny_species', phylogeny_to_taxonomy')
  /\ done' = {}
  /\ sp' = 1
  /\ pc' = "species"
  /\ UNCHANGED <<phylogeny, taxonomy, tax_root, tax_parents, error,
                 leaves0, log>>
\* ----------------------------------------------------- lines 61 to 127
CurrentSpecies == phylogeny_species[sp]

\* line 127
Return ==
  /\ pc = "species"
  /\ sp > Len(phylogeny_species)
  /\ pc' = "done"
  /\ UNCHANGED <<phylogeny, taxonomy, tax_root, phylogeny_species,
                 phylogeny_to_taxonomy, taxonomy_to_phylogeny, done, sp,
                 tax_parents, error, leaves0, log>>

\* lines 62-63
SkipSpecies ==
  /\ pc = "species"
  /\ sp <= Len(phylogeny_species)
  /\ \/ CurrentSpecies \notin DOMAIN phylogeny_to_taxonomy
     \/ phylogeny.name[CurrentSpecies] \in done
  /\ sp' = sp + 1
  /\ UNCHANGED <<phylogeny, taxonomy, tax_root, phylogeny_species,
                 phylogeny_to_taxonomy, taxonomy_to_phylogeny, done, pc,
                 tax_parents, error, leaves0, log>>

\* lines 65-66
StartSpecies ==
  /\ pc = "species"
  /\ sp <= Len(phylogeny_species)
  /\ CurrentSpecies \in DOMAIN phylogeny_to_taxonomy
  /\ phylogeny.name[CurrentSpecies] \notin done
  /\ tax_parents' = GetParents(taxonomy.parent,
                               phylogeny_to_taxonomy[CurrentSpecies])
  /\ pc' = "parents"
  /\ UNCHANGED <<phylogeny, taxonomy, tax_root, phylogeny_species,
                 phylogeny_to_taxonomy, taxonomy_to_phylogeny, done, sp,
                 error, leaves0, log>>

\* line 125, when the inner loop has run out
FinishSpecies ==
  /\ pc = "parents"
  /\ tax_parents = <<>>
  /\ done' = done \cup {phylogeny.name[CurrentSpecies]}
  /\ sp' = sp + 1
  /\ pc' = "species"
  /\ UNCHANGED <<phylogeny, taxonomy, tax_root, phylogeny_species,
                 phylogeny_to_taxonomy, taxonomy_to_phylogeny, tax_parents,
                 error, leaves0, log>>

\* the `parent` of line 67
Parent == Head(tax_parents)

\* line 68
SkipParent ==
  /\ pc = "parents"
  /\ tax_parents # <<>>
  /\ taxonomy.name[Parent] \in done
  /\ tax_parents' = Tail(tax_parents)
  /\ UNCHANGED <<phylogeny, taxonomy, tax_root, phylogeny_species,
                 phylogeny_to_taxonomy, taxonomy_to_phylogeny, done, pc, sp,
                 error, leaves0, log>>

\* lines 70-71: the leaves of the phylogeny found under `parent`
Fellows(tax, t2p, parent) ==
  {t2p[x] : x \in Elements(tax.clades, parent) \cap DOMAIN t2p}

\* line 72 taking the root of the tree for the group's common ancestor
GroupRootIsRoot(phy, tax, t2p, parent) == phy.root

\* line 72
GroupRoot(phy, tax, t2p, parent) ==
  CommonAncestor(phy.clades, phy.root, Fellows(tax, t2p, parent))

\* the leading nodes of a parent list that have branch length 0 and a name
\* (the loops of lines 85-89 and 109-112)
RECURSIVE ZeroNamed(_, _)
ZeroNamed(phy, ps) ==
  IF ps = <<>> THEN <<>>
  ELSE IF phy.branch_length[Head(ps)] = 0 /\ phy.name[Head(ps)] # NoName
       THEN <<Head(ps)>> \o ZeroNamed(phy, Tail(ps))
       ELSE <<>>

\* lines 84-89
OldOtus(phy, tax, group_root) ==
  LET chain == ZeroNamed(phy, GetParents(phy.parent, group_root))
  IN <<Lookup(tax.index, phy.name[group_root])>> \o
     [k \in DOMAIN chain |-> Lookup(tax.index, phy.name[chain[k]])]

\* lines 93-94 looking for the old_otus below new_otu instead of above it
MatchesDescendants(phy, tax, group_root, new_otu) ==
  LET old_otus == OldOtus(phy, tax, group_root)
  IN {k - 1 : k \in {m \in DOMAIN old_otus :
                       old_otus[m] \in Elements(tax.clades, new_otu)
                                         \ {new_otu}}}

\* lines 93-94: the positions (from 0) of the old_otus that are among the
\* parents of new_otu; None is among nobody's parents
Matches(phy, tax, group_root, new_otu) ==
  LET old_otus == OldOtus(phy, tax, group_root)
  IN {k - 1 : k \in {m \in DOMAIN old_otus :
                       old_otus[m] \in Range(GetParents(tax.parent, new_otu))}}

Min(S) == CHOOSE x \in S : \A y \in S : x <= y

\* lines 96-97
RECURSIVE NthParent(_, _, _)
NthParent(phy, n, k) ==
  IF k = 0 THEN n ELSE NthParent(phy, phy.parent[n], k - 1)

\* lines 99-103 without line 100: the children are copied, not moved
InnerPlacementCopies(phy, at, nm) ==
  LET new_clade == Len(phy.name) + 1
  IN [phy EXCEPT
        !.name = Append(@, nm),
        !.branch_length = Append(@, 0),
        !.parent = Append(@, 0),
        !.clades = Append([@ EXCEPT ![at] = Append(@, new_clade)],
                          phy.clades[at])]

\* line 80 and lines 99-103: the new clade takes over the children of `at`
\* and becomes its only child
InnerPlacement(phy, at, nm) ==
  LET new_clade == Len(phy.name) + 1
  IN [phy EXCEPT
        !.name = Append(@, nm),
        !.branch_length = Append(@, 0),
        !.parent = Append(@, 0),
        !.clades = Append([@ EXCEPT ![at] = <<new_clade>>], phy.clades[at])]

\* lines 109-112
Outermost(phy, group_root) ==
  LET chain == ZeroNamed(phy, GetParents(phy.parent, group_root))
  IN IF chain = <<>> THEN group_root ELSE chain[Len(chain)]

\* lines 114-121 without line 121: the old subtree is not hung under the
\* new clade
OuterPlacementDrops(phy, at, nm) ==
  LET new_clade == Len(phy.name) + 1
      old_parent == phy.parent[at]
  IN [phy EXCEPT
        !.name = Append(@, nm),
        !.branch_length = Append(@, 0),
        !.parent = Append(@, 0),
        !.root = IF at = phy.root THEN new_clade ELSE @,
        !.clades = Append(IF at = phy.root THEN @
                          ELSE [@ EXCEPT ![old_parent] =
                                  Append(ListRemove(@, at), new_clade)],
                          <<>>)]

\* line 80 and lines 114-121
OuterPlacement(phy, at, nm) ==
  LET new_clade == Len(phy.name) + 1
      old_parent == phy.parent[at]
  IN [phy EXCEPT
        !.name = Append(@, nm),
        !.branch_length = Append(@, 0),
        !.parent = Append(@, 0),
        !.root = IF at = phy.root THEN new_clade ELSE @,
        !.clades = Append(IF at = phy.root THEN @
                          ELSE [@ EXCEPT ![old_parent] =
                                  Append(ListRemove(@, at), new_clade)],
                          <<at>>)]

\* what lines 117-118 raise: the node has no _parent, or its _parent does
\* not list it
OuterError(phy, at) ==
  IF at = phy.root THEN ""
  ELSE IF phy.parent[at] = 0 THEN "AttributeError"
  ELSE IF at \notin Range(phy.clades[phy.parent[at]]) THEN "ValueError"
  ELSE ""

Entry(kind, group_root, at, node) ==
  [group |-> Parent, name |-> taxonomy.name[Parent], kind |-> kind,
   fellows |-> Fellows(taxonomy, taxonomy_to_phylogeny, Parent),
   group_root |-> group_root, at |-> at, node |-> node]

\* the step of the inner loop without line 123
ResolvedNotMarked(entry) ==
  /\ done' = done
  /\ tax_parents' = Tail(tax_parents)
  /\ log' = Append(log, entry)
  /\ UNCHANGED <<taxonomy, tax_root, phylogeny_species,
                 phylogeny_to_taxonomy, taxonomy_to_phylogeny, pc, sp,
                 error, leaves0>>

\* line 123 and the step of the inner loop
Resolved(entry) ==
  /\ done' = done \cup {taxonomy.name[Parent]}
  /\ tax_parents' = Tail(tax_parents)
  /\ log' = Append(log, entry)
  /\ UNCHANGED <<taxonomy, tax_root, phylogeny_species,
                 phylogeny_to_taxonomy, taxonomy_to_phylogeny, pc, sp,
                 error, leaves0>>

Resolving ==
  /\ pc = "parents"
  /\ tax_parents # <<>>
  /\ taxonomy.name[Parent] \notin done

\* lines 74-76
DirectLabel ==
  /\ Resolving
  /\ LET group_root == GroupRoot(phylogeny, taxonomy,
                                 taxonomy_to_phylogeny, Parent)
     IN /\ phylogeny.name[group_root] = NoName
        /\ phylogeny' =
             [phylogeny EXCEPT !.name[group_root] = taxonomy.name[Parent]]
        /\ Resolved(Entry("label", group_root, group_root, 0))

\* lines 78-105
SplitInner ==
  /\ Resolving
  /\ LET group_root == GroupRoot(phylogeny, taxonomy,
                                 taxonomy_to_phylogeny, Parent)
         found == Matches(phylogeny, taxonomy, group_root, Parent)
     IN /\ phylogeny.name[group_root] # NoName
        /\ found # {}
        /\ LET at == NthParent(phylogeny, group_root, Min(found))
           IN /\ phylogeny' =
                   InnerPlacement(phylogeny, at, taxonomy.name[Parent])
              /\ Resolved(Entry("inner", group_root, at,
                                Len(phylogeny.name) + 1))

\* lines 78-94 and 107-121
SplitOuter ==
  /\ Resolving
  /\ LET group_root == GroupRoot(phylogeny, taxonomy,
                                 taxonomy_to_phylogeny, Parent)
         at == Outermost(phylogeny, group_root)
     IN /\ phylogeny.name[group_root] # NoName
        /\ Matches(phylogeny, taxonomy, group_root, Parent) = {}
        /\ OuterError(phylogeny, at) = ""
        /\ phylogeny' = OuterPlacement(phylogeny, at, taxonomy.name[Parent])
        /\ Resolved(Entry("outer", group_root, at, Len(phylogeny.name) + 1))

\* lines 117-118 raising: the run ends there, nothing has been changed
SplitOuterRaises ==
  /\ Resolving
  /\ LET group_root == GroupRoot(phylogeny, taxonomy,
                                 taxonomy_to_phylogeny, Parent)
         at == Outermost(phylogeny, group_root)
     IN /\ phylogeny.name[group_root] # NoName
        /\ Matches(phylogeny, taxonomy, group_root, Parent) = {}
        /\ OuterError(phylogeny, at) # ""
        /\ error' = OuterError(phylogeny, at)
  /\ pc' = "error"
  /\ UNCHANGED <<phylogeny, taxonomy, tax_root, phylogeny_species,
                 phylogeny_to_taxonomy, taxonomy_to_phylogeny, done, sp,
                 tax_parents, leaves0, log>>

Next ==
  \/ ConvertLabels
  \/ SubsetTaxonomy
  \/ IndexTrees
  \/ BuildCorrespondence
  \/ Return
  \/ SkipSpecies
  \/ StartSpecies
  \/ FinishSpecies
  \/ SkipParent
  \/ DirectLabel
  \/ SplitInner
  \/ SplitOuter
  \/ SplitOuterRaises

Spec == Init /\ [][Next]_vars
\* ---------------------------------------------------------------- claims
Started == pc # "convert_labels"

Kinds == {log[k].kind : k \in DOMAIN log}

Surgeries == {k \in DOMAIN log : log[k].kind \in {"inner", "outer"}}

\* C1: leaf preservation -- once convert_labels has run, the leaves of the
\* phylogeny (the childless nodes under the root, with their names and
\* branch lengths) stay what they were, through every label and surgery and
\* up to the return of label_tree.
C1_LeafPreservation == Started => LeafSet(phylogeny) = leaves0

C1_Witness ==
  /\ pc = "done"
  /\ "label" \in Kinds
  /\ Surgeries # {}
  /\ Cardinality(leaves0) >= 2
  /\ LeafSet(phylogeny) = leaves0

\* every node under the root has the node that lists it as its _parent, and
\* the root has none
BackReferences(t) ==
  \A n \in Nodes(t) :
    IF n = t.root THEN t.parent[n] = 0
    ELSE /\ t.parent[n] # 0
         /\ n \in Range(t.clades[t.parent[n]])

\* every node under the root is listed once, by one node
SinglyRooted(t) ==
  LET order == FindElements(t.clades, t.root)
  IN \A j, k \in DOMAIN order : order[j] = order[k] => j = k

\* C2: tree well-formedness -- after every surgery the phylogeny is singly
\* rooted and acyclic and every node's _parent is the node whose child list
\* holds it, the root having no parent.
C2_TreeWellFormed ==
  Surgeries # {} => SinglyRooted(phylogeny) /\ BackReferences(phylogeny)

\* C8: name index freshness -- after a surgery, looking up the name of any
\* named node under the root in the phylogeny's label index finds a node
\* of the tree that carries the name.
C8_NameIndexFresh ==
  Surgeries # {} =>
    \A n \in Nodes(phylogeny) :
      phylogeny.name[n] # NoName =>
        LET hit == Lookup(phylogeny.index, phylogeny.name[n])
        IN /\ hit \in Nodes(phylogeny)
           /\ phylogeny.name[hit] = phylogeny.name[n]

\* the taxonomy was cut down to the node tax_root names
Pruned ==
  /\ pc \notin {"convert_labels", "subset"}
  /\ tax_root # NoName
  /\ taxonomy.name[taxonomy.root] = tax_root

\* C6: taxonomy subsetting -- when tax_root names a taxonomy node, every
\* correspondence points into the subtree of that node, the ancestor chain
\* walked for a leaf stays inside it, and no node outside it is resolved or
\* has its name put into done.
C6_TaxonomySubsetting ==
  Pruned =>
    /\ \A s \in DOMAIN phylogeny_to_taxonomy :
         phylogeny_to_taxonomy[s] \in Nodes(taxonomy)
    /\ Range(tax_parents) \subseteq Nodes(taxonomy)
    /\ \A k \in DOMAIN log : log[k].group \in Nodes(taxonomy)
    /\ done \subseteq {taxonomy.name[n] : n \in Nodes(taxonomy)}

\* C10: common_ancestor is never asked about no nodes -- whenever a group
\* is about to be resolved its fellows hold at least one leaf, and no run
\* stops on an error.
C10_FellowsNeverEmpty ==
  /\ Resolving => Fellows(taxonomy, taxonomy_to_phylogeny, Parent) # {}
  /\ pc # "error"

\* the taxonomy nodes that are above the counterpart of some mapped leaf
Groups ==
  {g \in Nodes(taxonomy) :
     \E s \in DOMAIN phylogeny_to_taxonomy :
       /\ phylogeny_to_taxonomy[s] # g
       /\ phylogeny_to_taxonomy[s] \in Elements(taxonomy.clades, g)}

Count(g) == Cardinality({k \in DOMAIN log : log[k].group = g})

\* one more group has been resolved in this step
ResolvedNow == Len(log') = Len(log) + 1

Latest == log'[Len(log')]

NameTaken(g) ==
  \/ \E s \in Range(phylogeny_species) :
       phylogeny.name[s] = taxonomy.name[g]
  \/ \E k \in DOMAIN log :
       log[k].name = taxonomy.name[g] /\ log[k].group # g

C5_OneNodePerConflict ==
  [][Resolving =>
       LET group_root == GroupRoot(phylogeny, taxonomy,
                                   taxonomy_to_phylogeny, Parent)
           new_clade == Len(phylogeny.name) + 1
       IN IF phylogeny.name[group_root] # NoName
          THEN /\ Len(phylogeny'.name) = new_clade
               /\ Nodes(phylogeny') = Nodes(phylogeny) \cup {new_clade}
               /\ new_clade \notin Nodes(phylogeny)
               /\ phylogeny'.name[new_clade] = taxonomy.name[Parent]
               /\ phylogeny'.branch_length[new_clade] = 0
          ELSE /\ phylogeny'.clades = phylogeny.clades
               /\ phylogeny'.root = phylogeny.root
               /\ phylogeny'.branch_length = phylogeny.branch_length
               /\ phylogeny'.name =
                    [phylogeny.name EXCEPT ![group_root] =
                                             taxonomy.name[Parent]]]_vars

\* the taxonomy node a phylogeny node's name finds, 0 for none
Counterpart(n) == Lookup(taxonomy.index, phylogeny.name[n])

\* the k-th node of the co-located chain of n: n itself for k = 0, then its
\* _parent, and so on while those have branch length 0 and a name; 0 when
\* the chain ends before k
RECURSIVE ChainAt(_, _)
ChainAt(n, k) ==
  IF k = 0 THEN n
  ELSE LET below == ChainAt(n, k - 1)
       IN IF below = 0 \/ phylogeny.parent[below] = 0 THEN 0
          ELSE LET up == phylogeny.parent[below]
               IN IF phylogeny.branch_length[up] = 0
                     /\ phylogeny.name[up] # NoName
                  THEN up ELSE 0

\* the k-th chain element of n is a taxonomic ancestor of taxonomy node a
AncestorAt(n, k, a) ==
  /\ ChainAt(n, k) # 0
  /\ Counterpart(ChainAt(n, k)) # 0
  /\ Counterpart(ChainAt(n, k)) \in Range(GetParents(taxonomy.parent, a))

\* C9: inner placement -- when some element of the co-located chain of the
\* (named) group root is a taxonomic ancestor of the new group, then for
\* the nearest such element, at position n, the node n parents up ends
\* with the new node (named after the group, branch length 0) as its only
\* child, the new node has that node's former children in their order, and
\* no other child list changes.
C9_InnerPlacement ==
  [][Resolving =>
       LET group_root == GroupRoot(phylogeny, taxonomy,
                                   taxonomy_to_phylogeny, Parent)
           new_clade == Len(phylogeny.name) + 1
       IN \A n \in 0..Len(phylogeny.name) :
            (/\ phylogeny.name[group_root] # NoName
             /\ AncestorAt(group_root, n, Parent)
             /\ \A m \in 0..(n - 1) : ~AncestorAt(group_root, m, Parent))
            => LET at == ChainAt(group_root, n)
               IN /\ phylogeny'.clades[at] = <<new_clade>>
                  /\ phylogeny'.clades[new_clade] = phylogeny.clades[at]
                  /\ phylogeny'.name[new_clade] = taxonomy.name[Parent]
                  /\ phylogeny'.branch_length[new_clade] = 0
                  /\ \A x \in DOMAIN phylogeny.clades \ {at} :
                       phylogeny'.clades[x] = phylogeny.clades[x]]_vars

C9_Witness ==
  \E k \in DOMAIN log :
    /\ log[k].kind = "inner"
    /\ log[k].at # log[k].group_root
    /\ log[k].at = phylogeny.parent[log[k].group_root]
    /\ phylogeny.clades[log[k].at] = <<log[k].node>>
    /\ log[k].group_root \in Range(phylogeny.clades[log[k].node])

\* the common ancestor, in the phylogeny as it stands, of the leaves found
\* under taxonomy node g
FinalAncestor(g) ==
  CommonAncestor(phylogeny.clades, phylogeny.root,
                 Fellows(taxonomy, taxonomy_to_phylogeny, g))

ZeroLengthNamed(v) ==
  phylogeny.branch_length[v] = 0 /\ phylogeny.name[v] # NoName

Adjacent(u, v) ==
  u \in Range(phylogeny.clades[v]) \/ v \in Range(phylogeny.clades[u])

\* the nodes joined to those of S through named nodes of branch length 0
RECURSIVE CoLocated(_)
CoLocated(S) ==
  LET more == S \cup {v \in Nodes(phylogeny) :
                        ZeroLengthNamed(v) /\ \E u \in S : Adjacent(u, v)}
  IN IF more = S THEN S ELSE CoLocated(more)

\* the common ancestor of g's leaves carries g's name, or a chain of named
\* zero-length nodes leads from it to a node that does
Labelled(g) ==
  LET chain == CoLocated({FinalAncestor(g)})
  IN \E v \in Nodes(phylogeny) :
       /\ phylogeny.name[v] = taxonomy.name[g]
       /\ v \in chain \/ \E u \in chain : Adjacent(u, v)

\* C3 as stated: label soundness -- after a full run, for every group the
\* common ancestor of its mapped leaves is named after it or is linked to
\* a node named after it by a chain of named zero-length nodes; without
\* any conflict in the run it carries exactly the group's name.
C3_LabelSoundness ==
  pc = "done" =>
    \A g \in Groups :
      /\ Labelled(g)
      /\ Surgeries = {} =>
           phylogeny.name[FinalAncestor(g)] = taxonomy.name[g]

\* the common ancestor of g's leaves carries g's name, or lies below a node
\* that does with none but named nodes from there down to it
UnderLabel(g) ==
  \E v \in Nodes(phylogeny) :
    /\ phylogeny.name[v] = taxonomy.name[g]
    /\ FinalAncestor(g) \in Elements(phylogeny.clades, v)
    /\ \A x \in Range(GetPath(phylogeny.clades, v, FinalAncestor(g))) :
         phylogeny.name[x] # NoName

\* C3 amended: after a full run, for every group that the run resolved
\* (its name was not already in done when its turn came), the common
\* ancestor of its mapped leaves is named after it or lies below a node
\* named after it with only named nodes between the two, whatever their
\* branch lengths; without any conflict in the run it carries exactly the
\* group's name.
C3_ResolvedLabelSoundness ==
  pc = "done" =>
    \A g \in Groups :
      Count(g) = 1 =>
        /\ UnderLabel(g)
        /\ Surgeries = {} =>
             phylogeny.name[FinalAncestor(g)] = taxonomy.name[g]

C3_Witness ==
  /\ pc = "done"
  /\ Surgeries # {}
  /\ Cardinality(Groups) >= 2
  /\ \A g \in Groups : Count(g) = 1
  /\ \E g \in Groups :
       phylogeny.name[FinalAncestor(g)] # taxonomy.name[g]

\* the run is Scenario C
IsScenarioC ==
  /\ taxonomy.name = <<(<<"Rank">>), <<"Suborder1">>, <<"A">>, <<"B">>,
                       <<"Suborder2">>, <<"A">>, <<"C">>>>
  /\ phylogeny_species = <<2, 3, 4>>

\* C7 as stated: in Scenario C the first group resolved labels the root
\* Suborder1, and Suborder2 finds that labelled root as its common
\* ancestor and gets a zero-length node by outer placement.
C7_ScenarioC ==
  IsScenarioC /\ pc = "done" =>
    /\ log[1].name = <<"Suborder1">> /\ log[1].kind = "label"
    /\ log[1].group_root = 1
    /\ \E k \in DOMAIN log :
         /\ log[k].name = <<"Suborder2">>
         /\ log[k].group_root = 1
         /\ log[k].kind = "outer"
         /\ phylogeny.branch_length[log[k].node] = 0

\* C7 amended: in Scenario C the first group resolved labels the root
\* Suborder1; the second is the common rank, whose common ancestor is that
\* labelled root and whose zero-length node becomes the new tree root by
\* outer placement; Suborder2 comes third with C as its only leaf (the
\* leaf A corresponds to the A under Suborder1), its common ancestor is
\* the leaf C, and outer placement puts its zero-length node between the
\* old root and C.
C7_ScenarioCResolved ==
  IsScenarioC /\ pc = "done" =>
    /\ Len(log) = 3
    /\ log[1].name = <<"Suborder1">> /\ log[1].kind = "label"
    /\ log[1].group_root = 1 /\ log[1].fellows = {2, 3}
    /\ log[2].name = <<"Rank">> /\ log[2].kind = "outer"
    /\ log[2].group_root = 1 /\ log[2].at = 1
    /\ log[3].name = <<"Suborder2">> /\ log[3].kind = "outer"
    /\ log[3].group_root = 4 /\ log[3].at = 4 /\ log[3].fellows = {4}
    /\ phylogeny.root = log[2].node
    /\ phylogeny.clades[log[2].node] = <<1>>
    /\ phylogeny.clades[1] = <<2, 3, log[3].node>>
    /\ phylogeny.clades[log[3].node] = <<4>>
    /\ phylogeny.name[1] = <<"Suborder1">>
    /\ phylogeny.name[log[2].node] = <<"Rank">>
    /\ phylogeny.name[log[3].node] = <<"Suborder2">>
    /\ phylogeny.branch_length[log[2].node] = 0
    /\ phylogeny.branch_length[log[3].node] = 0

C7_Witness ==
  /\ IsScenarioC
  /\ pc = "done"
  /\ Len(log) = 3
  /\ phylogeny.name[phylogeny.root] = <<"Rank">>

====
